---- MODULE Spec2Model ----
(***************************************************************************)
(* A model of the KullbackLeibler objective of the Core Imaging Library    *)
(* (Wrappers/Python/ccpi/optimisation/functions/KullbackLeibler.py).       *)
(*                                                                         *)
(* The file carries an unresolved merge: every method exists in a HEAD     *)
(* revision and in an origin/composite_operator_datacontainer revision.    *)
(* Both revisions are modelled, each under its own name (.._HEAD,          *)
(* .._origin).                                                             *)
(*                                                                         *)
(* Numbers.  The containers hold real numbers.  They are modelled exactly, *)
(* not as floating point: a finite number is a linear combination with     *)
(* rational coefficients of 1 and the atoms sqrt(m) (m squarefree), log(p) *)
(* (p prime) and exp(r) (r a nonzero rational), kept in canonical form, so *)
(* that two model numbers are equal exactly when the reals are equal.      *)
(* The IEEE values +inf, -inf and nan that numpy produces for a division   *)
(* by zero or a logarithm outside its domain are kept as separate kinds.   *)
(* Rounding and the sign of zero are not modelled.                         *)
(***************************************************************************)
EXTENDS Integers, Sequences, FiniteSets, TLC

(***************************************************************************)
(* Bounds of the model.                                                    *)
(***************************************************************************)
\* The number of elements of a container.
MaxLen == 2
\* The elements of the iterate x are the integers -1 .. MaxX.
MaxX == 2

XVals == (0 - 1)..MaxX
\* The elements of the data b, and the constant background bnoise.
BVals == {0, 2}
NoiseVals == {0, 1}

(***************************************************************************)
(* Rationals: <<n, d>> with d > 0 and gcd(n, d) = 1.                        *)
(***************************************************************************)
Abs(n) == IF n < 0 THEN 0 - n ELSE n

RECURSIVE GCD(_, _)
GCD(a, b) == IF b = 0 THEN a ELSE GCD(b, a % b)

Norm(n, d) ==
    IF d = 1 THEN <<n, 1>>
    ELSE LET g == GCD(Abs(n), Abs(d))
         IN  IF d < 0 THEN <<(0 - n) \div g, (0 - d) \div g>>
             ELSE <<n \div g, d \div g>>

Q(n, d) == Norm(n, d)
QInt(n) == <<n, 1>>
QZero == <<0, 1>>
QAdd(p, q) ==
    IF p[2] = q[2] THEN Norm(p[1] + q[1], p[2])
    ELSE Norm(p[1] * q[2] + q[1] * p[2], p[2] * q[2])
QMul(p, q) == Norm(p[1] * q[1], p[2] * q[2])
QNeg(p) == <<0 - p[1], p[2]>>
QInv(p) == Norm(p[2], p[1])
QSign(p) == IF p[1] > 0 THEN 1 ELSE IF p[1] < 0 THEN 0 - 1 ELSE 0

\* The step sizes tau.
TauVals == {Q(1, 2), Q(1, 1), Q(2, 1)}

(***************************************************************************)
(* Numbers: [k, r, t].  k is "fin", "pinf", "ninf" or "nan".  A finite     *)
(* number is r + the sum of c * atom over the terms <<atom, c>> of t, with *)
(* r and c rationals, c # 0, at most one term per atom.  An atom is        *)
(* <<"sqrt", m, 0>> (m > 1 squarefree), <<"log", p, 0>> (p prime) or       *)
(* <<"exp", n, d>> (n/d # 0).  The other kinds have r = 0 and no terms.    *)
(***************************************************************************)
SqrtAtom(m) == <<"sqrt", m, 0>>
LogAtom(p) == <<"log", p, 0>>
ExpAtom(r) == <<"exp", r[1], r[2]>>

PInf == [k |-> "pinf", r |-> QZero, t |-> {}]
NInf == [k |-> "ninf", r |-> QZero, t |-> {}]
NaN == [k |-> "nan", r |-> QZero, t |-> {}]
Fin(r, t) == [k |-> "fin", r |-> r, t |-> t]
NZero == Fin(QZero, {})

Rat(r) == Fin(r, {})
Int2N(n) == Fin(<<n, 1>>, {})

\* The coefficient of the atom a in the terms t.
Coef(t, a) ==
    LET S == {e \in t : e[1] = a}
    IN  IF S = {} THEN QZero ELSE (CHOOSE e \in S : TRUE)[2]

\* c * atom, for a coefficient c.
Term(c, a) == IF c[1] = 0 THEN NZero ELSE Fin(QZero, {<<a, c>>})

IsFin(x) == x.k = "fin"
IsRat(x) == x.k = "fin" /\ x.t = {}
RatOf(x) == x.r

\* -1, 0 or 1 for a rational or an infinity, 2 for nan (no order).
NSign(x) ==
    CASE x.k = "pinf" -> 1
      [] x.k = "ninf" -> 0 - 1
      [] x.k = "nan" -> 2
      [] IsRat(x) -> QSign(x.r)

\* numpy's x > 0, x < 0, x == 0: false on nan.
Gt0(x) == NSign(x) = 1
Lt0(x) == NSign(x) = 0 - 1
Eq0(x) == NSign(x) = 0

NNeg(x) ==
    CASE x.k = "pinf" -> NInf
      [] x.k = "ninf" -> PInf
      [] x.k = "nan" -> NaN
      [] x.k = "fin" -> Fin(QNeg(x.r), {<<e[1], QNeg(e[2])>> : e \in x.t})

AddTerms(t, u) ==
    IF t = {} THEN u
    ELSE IF u = {} THEN t
    ELSE LET A == {e[1] : e \in t} \cup {e[1] : e \in u}
             S == {<<a, QAdd(Coef(t, a), Coef(u, a))>> : a \in A}
         IN  {e \in S : e[2][1] # 0}

NAdd(x, y) ==
    IF x.k = "fin" /\ y.k = "fin"
    THEN Fin(QAdd(x.r, y.r), AddTerms(x.t, y.t))
    ELSE CASE x.k = "nan" \/ y.k = "nan" -> NaN
           [] x.k = "pinf" /\ y.k = "ninf" -> NaN
           [] x.k = "ninf" /\ y.k = "pinf" -> NaN
           [] x.k = "pinf" \/ y.k = "pinf" -> PInf
           [] x.k = "ninf" \/ y.k = "ninf" -> NInf

NSub(x, y) == NAdd(x, NNeg(y))

\* r * x for a rational r.
NScale(r, x) ==
    CASE x.k = "fin" ->
           IF r[1] = 0 THEN NZero
           ELSE Fin(QMul(r, x.r), {<<e[1], QMul(r, e[2])>> : e \in x.t})
      [] x.k = "nan" -> NaN
      [] x.k \in {"pinf", "ninf"} ->
           IF r[1] = 0 THEN NaN
           ELSE IF r[1] > 0 THEN x ELSE NNeg(x)

\* x * y; of two finite numbers one has to be rational.
NMul(x, y) ==
    CASE IsRat(x) -> NScale(x.r, y)
      [] IsRat(y) -> NScale(y.r, x)
      [] x.k = "nan" \/ y.k = "nan" -> NaN
      [] x.k # "fin" /\ y.k # "fin" -> IF x.k = y.k THEN PInf ELSE NInf

\* x / y as numpy.divide computes it: a division by zero is no error, it
\* gives an infinity with the sign of x, or nan for 0/0.
NDiv(x, y) ==
    CASE IsRat(y) /\ y.r[1] # 0 -> NScale(QInv(y.r), x)
      [] IsRat(y) /\ y.r[1] = 0 ->
           LET s == NSign(x)
           IN  IF s = 1 THEN PInf ELSE IF s = 0 - 1 THEN NInf ELSE NaN
      [] x.k = "nan" \/ y.k = "nan" -> NaN
      [] y.k \in {"pinf", "ninf"} -> IF x.k = "fin" THEN NZero ELSE NaN

\* The largest s with s*s dividing n (n > 0).
RECURSIVE SquarePartFrom(_, _)
SquarePartFrom(n, s) ==
    IF s * s > n THEN 1
    ELSE IF n % (s * s) = 0 THEN s * SquarePartFrom(n \div (s * s), s)
    ELSE SquarePartFrom(n, s + 1)

SquarePart(n) == SquarePartFrom(n, 2)

\* numpy.sqrt: sqrt(n/d) = sqrt(n*d)/d = (s/d) * sqrt(m), n*d = s*s*m;
\* nan for a negative number (no exception).
NSqrt(x) ==
    CASE IsRat(x) ->
           LET r == x.r
           IN  IF r[1] < 0 THEN NaN
               ELSE IF r[1] = 0 THEN NZero
               ELSE LET n == r[1] * r[2]
                        s == SquarePart(n)
                        m == n \div (s * s)
                    IN  IF m = 1 THEN Rat(Q(s, r[2]))
                        ELSE Term(Q(s, r[2]), SqrtAtom(m))
      [] x.k = "nan" \/ x.k = "ninf" -> NaN
      [] x.k = "pinf" -> PInf

IsPrime(p) == p >= 2 /\ \A q \in 2..(p - 1) : p % q # 0

RECURSIVE Valuation(_, _)
Valuation(p, n) == IF n % p = 0 THEN 1 + Valuation(p, n \div p) ELSE 0

\* numpy.log: log(n/d) = sum over the primes p of (v_p(n) - v_p(d)) log(p);
\* log(0) = -inf, log of a negative number = nan (no exception).
NLog(x) ==
    CASE IsRat(x) ->
           LET r == x.r
           IN  IF r[1] < 0 THEN NaN
               ELSE IF r[1] = 0 THEN NInf
               ELSE LET P == {p \in 2..r[1] : r[1] % p = 0 /\ IsPrime(p)}
                             \cup {p \in 2..r[2] : r[2] % p = 0 /\ IsPrime(p)}
                    IN  Fin(QZero,
                            {<<LogAtom(p),
                               QInt(Valuation(p, r[1]) - Valuation(p, r[2]))>> :
                                 p \in P})
      [] x.k = "nan" \/ x.k = "ninf" -> NaN
      [] x.k = "pinf" -> PInf

(***************************************************************************)
(* Containers: a DataContainer is a sequence of MaxLen numbers.  The       *)
(* elementwise primitives below return the values of the result; an        *)
(* operation with out= writes them into the buffer it names (Put).         *)
\* numpy.exp: exp(0) = 1, exp(r) of a rational r # 0 is an atom of its own
\* (the exponentials of distinct rationals are linearly independent over the
\* rationals), exp(-inf) = 0.
NExp(x) ==
    CASE IsRat(x) ->
           IF x.r[1] = 0 THEN Int2N(1) ELSE Term(<<1, 1>>, ExpAtom(x.r))
      [] x.k = "pinf" -> PInf
      [] x.k = "ninf" -> NZero
      [] x.k = "nan" -> NaN

(***************************************************************************)
Idx == 1..MaxLen
Arrays(V) == [Idx -> V]
Full(s) == [i \in Idx |-> s]

ArrAdd(a, c) == [i \in Idx |-> NAdd(a[i], c[i])]
ArrSub(a, c) == [i \in Idx |-> NSub(a[i], c[i])]
ArrMul(a, c) == [i \in Idx |-> NMul(a[i], c[i])]
ArrDiv(a, c) == [i \in Idx |-> NDiv(a[i], c[i])]
ArrSqrt(a) == [i \in Idx |-> NSqrt(a[i])]
ArrLog(a) == [i \in Idx |-> NLog(a[i])]
ArrExp(a) == [i \in Idx |-> NExp(a[i])]
\* container op python scalar (a rational)
ArrAddS(a, r) == [i \in Idx |-> NAdd(a[i], Rat(r))]
ArrSubS(a, r) == [i \in Idx |-> NSub(a[i], Rat(r))]
ArrMulS(a, r) == [i \in Idx |-> NScale(r, a[i])]
\* python scalar - container
ArrRSubS(r, a) == [i \in Idx |-> NSub(Rat(r), a[i])]

\* The sum of the elements at the positions of I, from python's 0.
RECURSIVE SumOver(_, _)
SumOver(a, I) ==
    IF I = {} THEN NZero
    ELSE LET i == CHOOSE j \in I : \A l \in I : j <= l
         IN  NAdd(a[i], SumOver(a, I \ {i}))

ArrSum(a) == SumOver(a, Idx)

\* The heap h after a write of the values v into the buffer named o.
Put(h, o, v) == [h EXCEPT ![o] = v]

(***************************************************************************)
(* What a call leaves behind: the heap, the instance's attributes, the     *)
(* returned value and the exception raised ("none" when it returns).       *)
(***************************************************************************)
RetNone == [tag |-> "None", val |-> <<>>]
RetContainer(a) == [tag |-> "container", val |-> a]
RetScalar(s) == [tag |-> "scalar", val |-> <<s>>]

Outcome(h, s, ret, exc) == [heap |-> h, self |-> s, ret |-> ret, exc |-> exc]

\* setattr(self, name, v)
SetAttr(s, name, v) == (name :> v) @@ s

Half == Q(1, 2)
One == Q(1, 1)
Two == Q(2, 1)
Four == Q(4, 1)
MinusOne == Q(0 - 1, 1)

(***************************************************************************)
(* KullbackLeibler.__call__                                                *)
(***************************************************************************)
\* (mutation of value_HEAD: the mask is tmp >= 0 instead of tmp > 0)
value_HEAD_MaskGe(h, s, x) ==
    LET tmp == ArrAdd(h[x], h[s.bnoise])
        ind == {i \in Idx : Gt0(tmp[i]) \/ Eq0(tmp[i])}
        res == [i \in Idx |->
                  NSub(h[x][i], NMul(h[s.b][i], NLog(tmp[i])))]
    IN  Outcome(h, s, RetScalar(SumOver(res, ind)), "none")

\* HEAD, lines 45-50.
value_HEAD(h, s, x) ==
    LET tmp == ArrAdd(h[x], h[s.bnoise])
        ind == {i \in Idx : Gt0(tmp[i])}
        res == [i \in Idx |->
                  NSub(h[x][i], NMul(h[s.b][i], NLog(tmp[i])))]
    IN  Outcome(h, s, RetScalar(SumOver(res, ind)), "none")

\* KullbackLeibler.log, lines 68-73: the values left in the container and
\* whether ValueError is raised (then the container is not written).
\* (mutation of log_raises: the guard of line 70 tests y >= 0)
log_raises_Ge(a) == ~ (\A i \in Idx : Gt0(a[i]) \/ Eq0(a[i]))
log_raises(a) == ~ (\A i \in Idx : Gt0(a[i]))
log_fill(a) == ArrLog(a)

\* (mutation of value_origin: line 54 keeps a sum_value container the
\* instance already holds instead of computing x + bnoise anew)
value_origin_KeepSum(h, s, x) ==
    LET sum_value == IF "sum_value" \in DOMAIN s /\ s.sum_value.tag = "container"
                     THEN s.sum_value.val
                     ELSE ArrAdd(h[x], h[s.bnoise])
        s1 == SetAttr(s, "sum_value", RetContainer(sum_value))
    IN  IF \E i \in Idx : Lt0(sum_value[i])
        THEN Outcome(h, SetAttr(s, "sum_value", RetScalar(PInf)),
                     RetScalar(PInf), "none")
        ELSE LET tmp == sum_value
             IN  IF log_raises(tmp)
                 THEN Outcome(h, s1, RetNone, "ValueError")
                 ELSE Outcome(h, s1,
                        RetScalar(ArrSum(ArrSub(h[x],
                                    ArrMul(h[s.b], log_fill(tmp))))),
                        "none")

\* origin, lines 54-64.
value_origin(h, s, x) ==
    LET sum_value == ArrAdd(h[x], h[s.bnoise])
        s1 == SetAttr(s, "sum_value", RetContainer(sum_value))
    IN  IF \E i \in Idx : Lt0(sum_value[i])
        THEN Outcome(h, SetAttr(s, "sum_value", RetScalar(PInf)),
                     RetScalar(PInf), "none")
        ELSE \* a container never compares equal to numpy.inf
             LET tmp == sum_value
             IN  IF log_raises(tmp)
                 THEN Outcome(h, s1, RetNone, "ValueError")
                 ELSE Outcome(h, s1,
                        RetScalar(ArrSum(ArrSub(h[x],
                                    ArrMul(h[s.b], log_fill(tmp))))),
                        "none")

(***************************************************************************)
(* KullbackLeibler.gradient                                                *)
(***************************************************************************)
\* line 80
gradient(h, s, x) ==
    Outcome(h, s,
            RetContainer(ArrRSubS(One, ArrDiv(h[s.b], ArrAdd(h[x], h[s.bnoise])))),
            "none")

\* HEAD, lines 83-84
gradient_out_HEAD(h, s, x, out) ==
    LET h1 == Put(h, out, ArrDiv(h[s.b], ArrAdd(h[x], h[s.bnoise])))
        h2 == Put(h1, out, ArrSubS(h1[out], One))
    IN  Outcome(h2, s, RetNone, "none")

\* (mutation of gradient_out_origin: the final out *= -1 is missing)
gradient_out_origin_NoNegate(h, s, x, out) ==
    LET h1 == Put(h, out, ArrAdd(h[x], h[s.bnoise]))
        h2 == Put(h1, out, ArrDiv(h1[s.b], h1[out]))
        h3 == Put(h2, out, ArrSubS(h2[out], One))
    IN  Outcome(h3, s, RetNone, "none")

\* origin, lines 95-98
gradient_out_origin(h, s, x, out) ==
    LET h1 == Put(h, out, ArrAdd(h[x], h[s.bnoise]))
        h2 == Put(h1, out, ArrDiv(h1[s.b], h1[out]))
        h3 == Put(h2, out, ArrSubS(h2[out], One))
        h4 == Put(h3, out, ArrMulS(h3[out], MinusOne))
    IN  Outcome(h4, s, RetNone, "none")

(***************************************************************************)
(* KullbackLeibler.convex_conjugate, origin, lines 102-104                 *)
(***************************************************************************)
convex_conjugate(h, s, x) ==
    LET tmp == ArrDiv(h[s.b], ArrRSubS(One, h[x]))
    IN  IF log_raises(tmp)
        THEN Outcome(h, s, RetNone, "ValueError")
        ELSE Outcome(h, s,
               RetScalar(ArrSum(ArrSub(
                   ArrMul(h[s.b], ArrSubS(log_fill(tmp), One)),
                   ArrMul(h[s.bnoise], ArrSubS(h[x], One))))),
               "none")

(***************************************************************************)
(* KullbackLeibler.proximal                                                *)
(***************************************************************************)
\* The closed form of lines 111, 114 and 117-119:
\* 0.5*((x - bnoise - tau) + ((x + bnoise - tau)**2 + 4*tau*b).sqrt())
proximal_formula(x, b, bnoise, tau) ==
    LET d == ArrSubS(ArrSub(x, bnoise), tau)
        e == ArrSubS(ArrAdd(x, bnoise), tau)
    IN  ArrMulS(ArrAdd(d, ArrSqrt(ArrAdd(ArrMul(e, e),
                                         ArrMulS(b, QMul(Four, tau))))),
                Half)

\* line 111
proximal(h, s, x, tau) ==
    Outcome(h, s,
            RetContainer(proximal_formula(h[x], h[s.b], h[s.bnoise], tau)),
            "none")

\* HEAD, lines 114-115
proximal_out_HEAD(h, s, x, tau, out) ==
    LET tmp == proximal_formula(h[x], h[s.b], h[s.bnoise], tau)
    IN  Outcome(Put(h, out, tmp), s, RetNone, "none")

\* (mutation of proximal_out_origin: line 127 adds bnoise instead of
\* subtracting it)
proximal_out_origin_AddNoise(h, s, x, tau, out) ==
    LET h1 == Put(h, out, ArrAdd(h[x], h[s.bnoise]))
        h2 == Put(h1, out, ArrSubS(h1[out], tau))
        h3 == Put(h2, out, ArrMul(h2[out], h2[out]))
        tmp == ArrMulS(h3[s.b], QMul(Four, tau))
        h4 == Put(h3, out, ArrAdd(h3[out], tmp))
        h5 == Put(h4, out, ArrSqrt(h4[out]))
        tmp1 == ArrAdd(h5[x], h5[s.bnoise])
        tmp2 == ArrSubS(tmp1, tau)
        h6 == Put(h5, out, ArrAdd(h5[out], tmp2))
        h7 == Put(h6, out, ArrMulS(h6[out], Half))
    IN  Outcome(h7, s, RetNone, "none")

\* origin, lines 117-132
proximal_out_origin(h, s, x, tau, out) ==
    LET h1 == Put(h, out, ArrAdd(h[x], h[s.bnoise]))
        h2 == Put(h1, out, ArrSubS(h1[out], tau))
        h3 == Put(h2, out, ArrMul(h2[out], h2[out]))
        tmp == ArrMulS(h3[s.b], QMul(Four, tau))
        h4 == Put(h3, out, ArrAdd(h3[out], tmp))
        h5 == Put(h4, out, ArrSqrt(h4[out]))
        tmp1 == ArrSub(h5[x], h5[s.bnoise])
        tmp2 == ArrSubS(tmp1, tau)
        h6 == Put(h5, out, ArrAdd(h5[out], tmp2))
        h7 == Put(h6, out, ArrMulS(h6[out], Half))
    IN  Outcome(h7, s, RetNone, "none")

(***************************************************************************)
(* KullbackLeibler.proximal_conjugate                                      *)
(***************************************************************************)
\* (mutation of proximal_conjugate_formula_HEAD: the factor 0.5 of line 143
\* is missing)
proximal_conjugate_formula_HEAD_NoHalf(x, b, bnoise, tau) ==
    LET z == ArrAdd(x, ArrMulS(bnoise, tau))
        zm == ArrSubS(z, One)
    IN  ArrSub(ArrAddS(z, One),
               ArrSqrt(ArrAdd(ArrMul(zm, zm), ArrMulS(b, QMul(Four, tau)))))

\* HEAD, lines 141-143 and 145-146
proximal_conjugate_formula_HEAD(x, b, bnoise, tau) ==
    LET z == ArrAdd(x, ArrMulS(bnoise, tau))
        zm == ArrSubS(z, One)
    IN  ArrMulS(ArrSub(ArrAddS(z, One),
                       ArrSqrt(ArrAdd(ArrMul(zm, zm),
                                      ArrMulS(b, QMul(Four, tau))))),
                Half)

\* origin, lines 141 and 150
proximal_conjugate_formula_origin(x, b, bnoise, tau) ==
    LET z == ArrAdd(x, ArrMulS(bnoise, tau))
        zm == ArrSubS(z, One)
    IN  ArrSub(ArrAddS(z, One),
               ArrSqrt(ArrAdd(ArrMul(zm, zm), ArrMulS(b, QMul(Four, tau)))))

proximal_conjugate_HEAD(h, s, x, tau) ==
    Outcome(h, s,
            RetContainer(proximal_conjugate_formula_HEAD(
                             h[x], h[s.b], h[s.bnoise], tau)),
            "none")

proximal_conjugate_origin(h, s, x, tau) ==
    Outcome(h, s,
            RetContainer(proximal_conjugate_formula_origin(
                             h[x], h[s.b], h[s.bnoise], tau)),
            "none")

\* HEAD, lines 145-147
proximal_conjugate_out_HEAD(h, s, x, tau, out) ==
    LET res == proximal_conjugate_formula_HEAD(h[x], h[s.b], h[s.bnoise], tau)
    IN  Outcome(Put(h, out, res), s, RetNone, "none")

\* (mutation of proximal_conjugate_out_origin: line 154 scales self.b in
\* place and copies it, instead of writing the product into out)
proximal_conjugate_out_origin_ScaleB(h, s, x, tau, out) ==
    LET z_m == ArrSubS(ArrAdd(h[x], ArrMulS(h[s.bnoise], tau)), One)
        h0 == Put(h, s.b, ArrMulS(h[s.b], QMul(Four, tau)))
        h1 == Put(h0, out, h0[s.b])
        z_m1 == ArrMul(z_m, z_m)
        h2 == Put(h1, out, ArrAdd(h1[out], z_m1))
        h3 == Put(h2, out, ArrSqrt(h2[out]))
        z_m2 == ArrSqrt(z_m1)
        z_m3 == ArrAddS(z_m2, Two)
        h4 == Put(h3, out, ArrMulS(h3[out], MinusOne))
        h5 == Put(h4, out, ArrAdd(h4[out], z_m3))
    IN  Outcome(h5, s, RetNone, "none")

\* origin, lines 152-161
proximal_conjugate_out_origin(h, s, x, tau, out) ==
    LET z_m == ArrSubS(ArrAdd(h[x], ArrMulS(h[s.bnoise], tau)), One)
        h1 == Put(h, out, ArrMulS(h[s.b], QMul(Four, tau)))
        z_m1 == ArrMul(z_m, z_m)
        h2 == Put(h1, out, ArrAdd(h1[out], z_m1))
        h3 == Put(h2, out, ArrSqrt(h2[out]))
        z_m2 == ArrSqrt(z_m1)
        z_m3 == ArrAddS(z_m2, Two)
        h4 == Put(h3, out, ArrMulS(h3[out], MinusOne))
        h5 == Put(h4, out, ArrAdd(h4[out], z_m3))
    IN  Outcome(h5, s, RetNone, "none")

(***************************************************************************)
(* The state.                                                              *)
(*   heap  the containers: the data b and the background bnoise the        *)
(*         instance refers to, the caller's iterate x and the caller's     *)
(*         output buffer out                                               *)
(*   self  the instance's attributes (its __dict__)                        *)
(*   xin   the iterate the solver passes, tau its step size                *)
(*   last  the last call: operation, output target, returned value,        *)
(*         exception                                                       *)
(*   th    the two threads of the concurrent scenario                      *)
(***************************************************************************)
(* AbsorptionTransmissionConverter (cil/processors).  The instance holds   *)
(* white_level and, once set_input has run, the name of its input buffer.  *)
(***************************************************************************)
\* lines 38-43
ConstructATC(white_level) == [white_level |-> white_level]

\* (mutation of process: line 57 takes the input itself, not a copy of it)
process_NoCopy(h, s, out) ==
    IF out = "None"
    THEN LET h1 == Put(h, s.input, ArrMulS(h[s.input], MinusOne))
             h2 == Put(h1, s.input, ArrExp(h1[s.input]))
             h3 == Put(h2, s.input, ArrMulS(h2[s.input], s.white_level))
         IN  Outcome(h3, s, RetContainer(h3[s.input]), "none")
    ELSE LET h1 == Put(h, out, ArrMulS(h[out], MinusOne))
             h2 == Put(h1, out, ArrExp(h1[out]))
             h3 == Put(h2, out, ArrMulS(h2[out], s.white_level))
         IN  Outcome(h3, s, RetNone, "none")

\* (mutation of process: line 68, the scaling of out by white_level, is
\* missing)
process_NoScale(h, s, out) ==
    IF out = "None"
    THEN LET data == h[s.input]
             data1 == ArrMulS(data, MinusOne)
             data2 == ArrExp(data1)
             data3 == ArrMulS(data2, s.white_level)
         IN  Outcome(h, s, RetContainer(data3), "none")
    ELSE LET h1 == Put(h, out, ArrMulS(h[out], MinusOne))
             h2 == Put(h1, out, ArrExp(h1[out]))
         IN  Outcome(h2, s, RetNone, "none")

\* lines 53-68.  With out given, the three steps run on out's own contents:
\* the input is not read.
process(h, s, out) ==
    IF out = "None"
    THEN LET data == h[s.input]
             data1 == ArrMulS(data, MinusOne)
             data2 == ArrExp(data1)
             data3 == ArrMulS(data2, s.white_level)
         IN  Outcome(h, s, RetContainer(data3), "none")
    ELSE LET h1 == Put(h, out, ArrMulS(h[out], MinusOne))
             h2 == Put(h1, out, ArrExp(h1[out]))
             h3 == Put(h2, out, ArrMulS(h2[out], s.white_level))
         IN  Outcome(h3, s, RetNone, "none")

(***************************************************************************)
VARIABLES heap, self, xin, tau, last, th

vars == <<heap, self, xin, tau, last, th>>

ToArr(f) == [i \in Idx |-> Int2N(f[i])]

NoCall == [op |-> "none", out |-> "None", ret |-> RetNone, exc |-> "none"]

Threads == {1, 2}
Idle == [pc |-> "idle", x |-> Full(NZero), tmp |-> Full(NZero), ret |-> RetNone,
         exc |-> "none"]

\* __init__, lines 32-37: self.b = data, self.bnoise = kwargs bnoise.
Construct(data, bnoise) == [b |-> data, bnoise |-> bnoise]

Init ==
    /\ \E bv \in Arrays(BVals), nv \in NoiseVals, xv \in Arrays(XVals) :
         /\ heap = [b |-> ToArr(bv), bnoise |-> Full(Int2N(nv)), x |-> ToArr(xv),
                    out |-> Full(NZero)]
         /\ xin = ToArr(xv)
    /\ tau \in TauVals
    /\ self = Construct("b", "bnoise")
    /\ last = NoCall
    /\ th = [t \in Threads |-> Idle]

\* The caller is ready to call: its x holds the iterate and its output buffer
\* is freshly allocated.  Pre is the heap a call starts from.
Ready == last.op = "none"
Pre == heap

\* The output target of an in-place call: x itself or the separate buffer.
Targets == {"x", "out"}

Finish(op, out, r) ==
    /\ heap' = r.heap
    /\ self' = r.self
    /\ last' = [op |-> op, out |-> out, ret |-> r.ret, exc |-> r.exc]
    /\ UNCHANGED <<xin, tau, th>>

Call_value_HEAD ==
    /\ Ready
    /\ Finish("value_HEAD", "None", value_HEAD(Pre, self, "x"))

Call_value_origin ==
    /\ Ready
    /\ Finish("value_origin", "None", value_origin(Pre, self, "x"))

Call_gradient ==
    /\ Ready
    /\ Finish("gradient", "None", gradient(Pre, self, "x"))

Call_gradient_out_HEAD ==
    /\ Ready
    /\ \E o \in Targets :
        Finish("gradient_out_HEAD", o, gradient_out_HEAD(Pre, self, "x", o))

Call_gradient_out_origin ==
    /\ Ready
    /\ \E o \in Targets :
        Finish("gradient_out_origin", o, gradient_out_origin(Pre, self, "x", o))

Call_convex_conjugate ==
    /\ Ready
    /\ Finish("convex_conjugate", "None", convex_conjugate(Pre, self, "x"))

Call_proximal ==
    /\ Ready
    /\ Finish("proximal", "None", proximal(Pre, self, "x", tau))

Call_proximal_out_HEAD ==
    /\ Ready
    /\ \E o \in Targets :
        Finish("proximal_out_HEAD", o, proximal_out_HEAD(Pre, self, "x", tau, o))

Call_proximal_out_origin ==
    /\ Ready
    /\ \E o \in Targets :
        Finish("proximal_out_origin", o,
               proximal_out_origin(Pre, self, "x", tau, o))

Call_proximal_conjugate_HEAD ==
    /\ Ready
    /\ Finish("proximal_conjugate_HEAD", "None",
           proximal_conjugate_HEAD(Pre, self, "x", tau))

Call_proximal_conjugate_origin ==
    /\ Ready
    /\ Finish("proximal_conjugate_origin", "None",
           proximal_conjugate_origin(Pre, self, "x", tau))

Call_proximal_conjugate_out_HEAD ==
    /\ Ready
    /\ \E o \in Targets :
        Finish("proximal_conjugate_out_HEAD", o,
               proximal_conjugate_out_HEAD(Pre, self, "x", tau, o))

Call_proximal_conjugate_out_origin ==
    /\ Ready
    /\ \E o \in Targets :
        Finish("proximal_conjugate_out_origin", o,
               proximal_conjugate_out_origin(Pre, self, "x", tau, o))

\* The Moreau decomposition as the solver's test evaluates it:
\* proximal(x, tau) + tau * proximal_conjugate(x / tau, 1 / tau),
\* with the allocating forms; pc_ret is what proximal_conjugate returned.
Dual(h) == Put(h, "x", ArrMulS(h["x"], QInv(tau)))

Moreau(h, s, pc_ret) ==
    Outcome(h, s,
            RetContainer(ArrAdd(proximal(h, s, "x", tau).ret.val,
                                ArrMulS(pc_ret.val, tau))),
            "none")

Call_Moreau_HEAD ==
    /\ Ready
    /\ Finish("Moreau_HEAD", "None",
           Moreau(Pre, self,
                  proximal_conjugate_HEAD(Dual(Pre), self, "x", QInv(tau)).ret))

Call_Moreau_origin ==
    /\ Ready
    /\ Finish("Moreau_origin", "None",
           Moreau(Pre, self,
                  proximal_conjugate_origin(Dual(Pre), self, "x", QInv(tau)).ret))

\* The caller has used the result: it puts its iterate back into x, takes a
\* fresh output buffer and is ready for the next call.  The instance is left
\* as the calls left it.
Return ==
    /\ ~ Ready
    /\ heap' = [heap EXCEPT !["x"] = xin, !["out"] = Full(NZero)]
    /\ last' = NoCall
    /\ UNCHANGED <<self, xin, tau, th>>

Next ==
    \/ Return
    \/ Call_value_HEAD
    \/ Call_value_origin
    \/ Call_gradient
    \/ Call_gradient_out_HEAD
    \/ Call_gradient_out_origin
    \/ Call_convex_conjugate
    \/ Call_proximal
    \/ Call_proximal_out_HEAD
    \/ Call_proximal_out_origin
    \/ Call_proximal_conjugate_HEAD
    \/ Call_proximal_conjugate_origin
    \/ Call_proximal_conjugate_out_HEAD
    \/ Call_proximal_conjugate_out_origin
    \/ Call_Moreau_HEAD
    \/ Call_Moreau_origin

Spec == Init /\ [][Next]_vars

(***************************************************************************)
(* A caller that passes a step size tau <= 0 to proximal and               *)
(* proximal_conjugate (lines 108-162).  The calls are the ones of Next;    *)
(* only the step size the instance is driven with differs.                 *)
(***************************************************************************)
NonPositiveTau == {QZero, MinusOne}

InitNonPositiveTau ==
    /\ \E bv \in Arrays(BVals), nv \in NoiseVals, xv \in Arrays(XVals) :
         /\ heap = [b |-> ToArr(bv), bnoise |-> Full(Int2N(nv)), x |-> ToArr(xv),
                    out |-> Full(NZero)]
         /\ xin = ToArr(xv)
    /\ tau \in NonPositiveTau
    /\ self = Construct("b", "bnoise")
    /\ last = NoCall
    /\ th = [t \in Threads |-> Idle]

NextNonPositiveTau ==
    \/ Call_proximal
    \/ Call_proximal_out_HEAD
    \/ Call_proximal_out_origin
    \/ Call_proximal_conjugate_HEAD
    \/ Call_proximal_conjugate_origin
    \/ Call_proximal_conjugate_out_HEAD
    \/ Call_proximal_conjugate_out_origin
    \/ Return

SpecNonPositiveTau == InitNonPositiveTau /\ [][NextNonPositiveTau]_vars

(***************************************************************************)
(* A caller that survives a failed call.  When value or convex_conjugate   *)
(* has raised from the log guard (lines 68-73) the caller replaces its     *)
(* iterate by a constant one and goes on calling the same instance, which  *)
(* still holds whatever the failed call left in it.                        *)
(***************************************************************************)
RestartVals == {Full(Int2N(v)) : v \in XVals}

InitRestart ==
    /\ \E bv \in Arrays(BVals), nv \in NoiseVals, xv \in Arrays(XVals) :
         /\ heap = [b |-> ToArr(bv), bnoise |-> Full(Int2N(nv)), x |-> ToArr(xv),
                    out |-> Full(NZero)]
         /\ xin = ToArr(xv)
    /\ tau = One
    /\ self = Construct("b", "bnoise")
    /\ last = NoCall
    /\ th = [t \in Threads |-> Idle]

Restart ==
    /\ last.exc = "ValueError"
    /\ \E xv \in RestartVals :
         /\ heap' = [heap EXCEPT !["x"] = xv, !["out"] = Full(NZero)]
         /\ xin' = xv
    /\ last' = NoCall
    /\ UNCHANGED <<self, tau, th>>

NextRestart ==
    \/ Next
    \/ Restart

SpecRestart == InitRestart /\ [][NextRestart]_vars

(***************************************************************************)
(* The converter as test_AbsorptionTransmissionConverter drives it         *)
(* (test_DataProcessor.py, lines 677-689): the dataset ad is the buffer x, *)
(* out is a second, freshly allocated container of the same shape.  After  *)
(* set_input the caller asks for the output, keeps it (data_exp, held in   *)
(* last.ret) and then processes in place, into ad itself or into out.      *)
(***************************************************************************)
WhiteLevels == {Q(1, 1), Q(10, 1)}

InitATC ==
    /\ \E xv \in Arrays(XVals) :
         /\ heap = [x |-> ToArr(xv), out |-> Full(NZero)]
         /\ xin = ToArr(xv)
    /\ \E w \in WhiteLevels : self = ConstructATC(w)
    /\ tau = One
    /\ last = NoCall
    /\ th = [t \in Threads |-> Idle]

\* s.set_input(ad)
ATC_set_input ==
    /\ Ready
    /\ self' = SetAttr(self, "input", "x")
    /\ last' = [op |-> "set_input", out |-> "None", ret |-> RetNone,
                exc |-> "none"]
    /\ UNCHANGED <<heap, xin, tau, th>>

\* data_exp = s.get_output(): the base class calls process()
ATC_get_output ==
    /\ last.op = "set_input"
    /\ Finish("get_output", "None", process(heap, self, "None"))

\* s.process()
ATC_process ==
    /\ last.op = "set_input"
    /\ Finish("process", "None", process(heap, self, "None"))

\* s.process(out=o); the caller still holds data_exp
ATC_process_out ==
    /\ last.op = "get_output"
    /\ \E o \in Targets :
         LET r == process(heap, self, o)
         IN  /\ heap' = r.heap
             /\ self' = r.self
             /\ last' = [op |-> "process_out", out |-> o, ret |-> last.ret,
                         exc |-> r.exc]
    /\ UNCHANGED <<xin, tau, th>>

NextATC ==
    \/ ATC_set_input
    \/ ATC_get_output
    \/ ATC_process
    \/ ATC_process_out
    \/ Return

SpecATC == InitATC /\ [][NextATC]_vars

(***************************************************************************)
(* Two threads call value (origin revision, lines 54-64) on one instance,  *)
(* each with its own argument.  A step is one statement: the interpreter   *)
(* may switch threads between any two of them.  self.sum_value is the      *)
(* instance's, and so shared; tmp is a local of the call.                  *)
(***************************************************************************)
Started(x) == [pc |-> "L54", x |-> x, tmp |-> Full(NZero), ret |-> RetNone,
               exc |-> "none"]

InitConc ==
    /\ \E bv \in Arrays(BVals), nv \in NoiseVals, xv \in Arrays(XVals) :
         /\ heap = [b |-> ToArr(bv), bnoise |-> Full(Int2N(nv)), x |-> ToArr(xv),
                    out |-> Full(NZero)]
         /\ xin = ToArr(xv)
    /\ tau = One
    /\ self = Construct("b", "bnoise")
    /\ last = NoCall
    /\ \E x2 \in Arrays(XVals) :
         /\ ToArr(x2) # xin
         /\ th = [t \in Threads |-> Started(IF t = 1 THEN xin ELSE ToArr(x2))]

Step(t, pc, tmp, ret, exc) ==
    th' = [th EXCEPT ![t] = [pc |-> pc, x |-> th[t].x, tmp |-> tmp, ret |-> ret,
                             exc |-> exc]]

\* line 54: self.sum_value = x + self.bnoise
T_L54(t) ==
    /\ th[t].pc = "L54"
    /\ self' = SetAttr(self, "sum_value",
                       RetContainer(ArrAdd(th[t].x, heap[self.bnoise])))
    /\ Step(t, "L55", th[t].tmp, RetNone, "none")
    /\ UNCHANGED <<heap, xin, tau, last>>

\* line 55: if (self.sum_value.as_array()<0).any(); a float has no as_array
T_L55(t) ==
    /\ th[t].pc = "L55"
    /\ IF self.sum_value.tag = "scalar"
       THEN Step(t, "done", th[t].tmp, RetNone, "AttributeError")
       ELSE IF \E i \in Idx : Lt0(self.sum_value.val[i])
            THEN Step(t, "L56", th[t].tmp, RetNone, "none")
            ELSE Step(t, "L58", th[t].tmp, RetNone, "none")
    /\ UNCHANGED <<heap, self, xin, tau, last>>

\* line 56: self.sum_value = numpy.inf
T_L56(t) ==
    /\ th[t].pc = "L56"
    /\ self' = SetAttr(self, "sum_value", RetScalar(PInf))
    /\ Step(t, "L58", th[t].tmp, RetNone, "none")
    /\ UNCHANGED <<heap, xin, tau, last>>

\* lines 58-59: if self.sum_value==numpy.inf: return numpy.inf
T_L58(t) ==
    /\ th[t].pc = "L58"
    /\ IF self.sum_value.tag = "scalar"
       THEN Step(t, "done", th[t].tmp, RetScalar(PInf), "none")
       ELSE Step(t, "L61", th[t].tmp, RetNone, "none")
    /\ UNCHANGED <<heap, self, xin, tau, last>>

\* line 61: tmp = self.sum_value.copy(); a float has no copy
T_L61(t) ==
    /\ th[t].pc = "L61"
    /\ IF self.sum_value.tag = "scalar"
       THEN Step(t, "done", th[t].tmp, RetNone, "AttributeError")
       ELSE Step(t, "L63", self.sum_value.val, RetNone, "none")
    /\ UNCHANGED <<heap, self, xin, tau, last>>

\* lines 63-64: self.log(tmp); return (x - self.b * tmp).sum()
T_L63(t) ==
    /\ th[t].pc = "L63"
    /\ IF log_raises(th[t].tmp)
       THEN Step(t, "done", th[t].tmp, RetNone, "ValueError")
       ELSE Step(t, "done", log_fill(th[t].tmp),
                 RetScalar(ArrSum(ArrSub(th[t].x,
                             ArrMul(heap[self.b], log_fill(th[t].tmp))))),
                 "none")
    /\ UNCHANGED <<heap, self, xin, tau, last>>

NextConc ==
    \E t \in Threads :
        \/ T_L54(t)
        \/ T_L55(t)
        \/ T_L56(t)
        \/ T_L58(t)
        \/ T_L61(t)
        \/ T_L63(t)

SpecConc == InitConc /\ [][NextConc]_vars

(***************************************************************************)
(* Properties.                                                             *)
(***************************************************************************)
\* The heap as it was when the last call was made.
CallHeap == [heap EXCEPT !["x"] = xin, !["out"] = Full(NZero)]
OfB == heap["b"]
OfNoise == heap["bnoise"]
LogArg(i) == NAdd(xin[i], OfNoise[i])
Irrational(a) == \E i \in Idx : a[i].k = "fin" /\ a[i].t # {}

\* C1: Moreau decomposition with the origin revision of proximal_conjugate:
\* proximal(x, tau) + tau * proximal_conjugate(x / tau, 1 / tau) equals x
\* elementwise, for every x, tau > 0, b >= 0 and bnoise.
C1_MoreauOrigin ==
    last.op = "Moreau_origin" => last.ret.val = xin

\* C2: the in-place gradient of the origin revision leaves in out the values
\* the allocating form 1 - b/(x + bnoise) returns, whenever x + bnoise is
\* nonzero everywhere (out is x or a separate buffer, never b or bnoise).
C2_GradientOutOrigin ==
    (last.op = "gradient_out_origin" /\ \A i \in Idx : ~ Eq0(LogArg(i)))
        => heap[last.out] = gradient(CallHeap, self, "x").ret.val

C2_Witness ==
    /\ last.op = "gradient_out_origin"
    /\ \A i \in Idx : ~ Eq0(LogArg(i))
    /\ last.out = "x"
    /\ \E i \in Idx : Gt0(OfB[i]) /\ Lt0(heap["x"][i])
    /\ \E i \in Idx : Lt0(LogArg(i))

\* C3: the in-place gradient of the HEAD revision leaves in out the values
\* the allocating form 1 - b/(x + bnoise) returns, whenever x + bnoise is
\* nonzero everywhere.
C3_GradientOutHEAD ==
    (last.op = "gradient_out_HEAD" /\ \A i \in Idx : ~ Eq0(LogArg(i)))
        => heap[last.out] = gradient(CallHeap, self, "x").ret.val

\* C4: the in-place proximal of the origin revision, with an output buffer
\* distinct from x, b and bnoise, leaves in out the allocating result
\* 0.5*((x - bnoise - tau) + sqrt((x + bnoise - tau)^2 + 4*tau*b)) and
\* leaves x unchanged.
C4_ProximalOutOrigin ==
    (last.op = "proximal_out_origin" /\ last.out = "out")
        => /\ heap["out"] = proximal(CallHeap, self, "x", tau).ret.val
           /\ heap["x"] = xin

C4_Witness ==
    /\ last.op = "proximal_out_origin"
    /\ last.out = "out"
    /\ Irrational(heap["out"])
    /\ \E i \in Idx : IsRat(heap["out"][i]) /\ Gt0(OfB[i])
    /\ \E i \in Idx : Gt0(OfNoise[i])
    /\ tau # One

\* C5: the in-place proximal_conjugate of the origin revision leaves in out
\* the allocating result (z + 1) - sqrt((z - 1)^2 + 4*tau*b), z = x +
\* tau*bnoise, for every x, tau > 0, b >= 0 and bnoise, also where z < 1.
C5_ProximalConjugateOutOrigin ==
    last.op = "proximal_conjugate_out_origin"
        => heap[last.out] = proximal_conjugate_origin(CallHeap, self, "x", tau).ret.val

\* C6: proximal(x, tau, out=x) of the origin revision leaves in x the values
\* the allocating proximal returns for the contents x had before the call.
C6_ProximalOutIsX ==
    (last.op = "proximal_out_origin" /\ last.out = "x")
        => heap["x"] = proximal(CallHeap, self, "x", tau).ret.val

\* C7: convex_conjugate raises ValueError and returns nothing whenever some
\* element of x has 1 - x <= 0, for every b >= 0.
C7_ConjugateRaises ==
    (last.op = "convex_conjugate"
        /\ \E i \in Idx : ~ Gt0(NSub(Int2N(1), xin[i])))
        => last.exc = "ValueError" /\ last.ret = RetNone

\* C8 as stated: value of the HEAD revision returns the sum, over exactly the
\* positions where x + bnoise > 0, of x + bnoise - b*log(x + bnoise), and
\* does not raise.
C8_ValueHEAD_WithNoise ==
    last.op = "value_HEAD"
        => /\ last.exc = "none"
           /\ last.ret = RetScalar(SumOver(
                  [i \in Idx |-> NSub(LogArg(i), NMul(OfB[i], NLog(LogArg(i))))],
                  {i \in Idx : Gt0(LogArg(i))}))

\* C8 (amended): value of the HEAD revision returns the sum, over exactly the
\* positions where x + bnoise > 0, of x - b*log(x + bnoise): bnoise enters
\* the logarithm only.  Positions where x + bnoise <= 0 contribute nothing
\* and the call does not raise.
C8_ValueHEAD ==
    last.op = "value_HEAD"
        => /\ last.exc = "none"
           /\ last.ret = RetScalar(SumOver(
                  [i \in Idx |-> NSub(xin[i], NMul(OfB[i], NLog(LogArg(i))))],
                  {i \in Idx : Gt0(LogArg(i))}))

C8_Witness ==
    /\ last.op = "value_HEAD"
    /\ \E i \in Idx : Gt0(LogArg(i)) /\ Gt0(OfNoise[i]) /\ Gt0(OfB[i])
    /\ \E i \in Idx : ~ Gt0(LogArg(i))
    /\ last.ret.val[1].t # {}

\* C9: two concurrent calls value(x1), value(x2) on one instance, x1 # x2,
\* each return what the same call returns when it runs alone.
Alone(t) == value_origin(Put(heap, "x", th[t].x), Construct("b", "bnoise"), "x")

C9_ConcurrentValue ==
    \A t \in Threads :
        th[t].pc = "done"
            => th[t].ret = Alone(t).ret /\ th[t].exc = Alone(t).exc

\* C10: after any sequence of calls the instance holds exactly the state it
\* held after construction: the attributes b and bnoise, and no other.
C10_InstanceUnchanged ==
    self = Construct("b", "bnoise")

\* C11: no operation writes into b or bnoise.  Every step of every call,
\* allocating or in place with x or a separate buffer as output target,
\* leaves the contents of both buffers as they are, so after any sequence
\* of calls they equal their contents at construction.
C11_DataUnchanged ==
    [][heap'["b"] = heap["b"] /\ heap'["bnoise"] = heap["bnoise"]]_vars

C11_Witness ==
    /\ last.op = "proximal_conjugate_out_origin"
    /\ last.out = "x"
    /\ heap["x"] # xin
    /\ \E i \in Idx : Gt0(OfB[i])
    /\ \E i \in Idx : Gt0(OfNoise[i])

\* C12: gradient, allocating or in place, raises instead of returning or
\* writing a result whenever some element of x + bnoise is <= 0.
C12_GradientRaises ==
    (last.op \in {"gradient", "gradient_out_HEAD", "gradient_out_origin"}
        /\ \E i \in Idx : ~ Gt0(LogArg(i)))
        => last.exc # "none" /\ last.ret = RetNone

\* C13: proximal and proximal_conjugate reject a step size tau <= 0: the
\* call raises, returns no container and writes nothing into the output
\* target.
C13_RejectsNonPositiveTau ==
    (last.op \in {"proximal", "proximal_out_HEAD", "proximal_out_origin",
                  "proximal_conjugate_HEAD", "proximal_conjugate_origin",
                  "proximal_conjugate_out_HEAD",
                  "proximal_conjugate_out_origin"}
        /\ QSign(tau) <= 0)
        => /\ last.exc # "none"
           /\ last.ret = RetNone
           /\ heap = CallHeap

\* What the call named op, with output target out, does on a freshly
\* constructed instance with the same b and bnoise, from the heap the caller
\* holds.
OnFresh(op, out) ==
    LET f == Construct("b", "bnoise")
    IN  CASE op = "value_HEAD" -> value_HEAD(heap, f, "x")
          [] op = "value_origin" -> value_origin(heap, f, "x")
          [] op = "gradient" -> gradient(heap, f, "x")
          [] op = "gradient_out_HEAD" -> gradient_out_HEAD(heap, f, "x", out)
          [] op = "gradient_out_origin" -> gradient_out_origin(heap, f, "x", out)
          [] op = "convex_conjugate" -> convex_conjugate(heap, f, "x")
          [] op = "proximal" -> proximal(heap, f, "x", tau)
          [] op = "proximal_out_HEAD" -> proximal_out_HEAD(heap, f, "x", tau, out)
          [] op = "proximal_out_origin" ->
                 proximal_out_origin(heap, f, "x", tau, out)
          [] op = "proximal_conjugate_HEAD" ->
                 proximal_conjugate_HEAD(heap, f, "x", tau)
          [] op = "proximal_conjugate_origin" ->
                 proximal_conjugate_origin(heap, f, "x", tau)
          [] op = "proximal_conjugate_out_HEAD" ->
                 proximal_conjugate_out_HEAD(heap, f, "x", tau, out)
          [] op = "proximal_conjugate_out_origin" ->
                 proximal_conjugate_out_origin(heap, f, "x", tau, out)

FiveOperations ==
    {"value_HEAD", "value_origin", "gradient", "gradient_out_HEAD",
     "gradient_out_origin", "convex_conjugate", "proximal", "proximal_out_HEAD",
     "proximal_out_origin", "proximal_conjugate_HEAD",
     "proximal_conjugate_origin", "proximal_conjugate_out_HEAD",
     "proximal_conjugate_out_origin"}

\* The instance holds a sum_value container that is not x + bnoise of the
\* caller's iterate and has a zero and no negative element: it was left by
\* a value call that raised from the log guard.
AfterFailedValue ==
    /\ "sum_value" \in DOMAIN self
    /\ self.sum_value.tag = "container"
    /\ self.sum_value.val # ArrAdd(xin, OfNoise)
    /\ \E i \in Idx : Eq0(self.sum_value.val[i])

\* C14: a failed call aborts that call only.  A call that raises from the
\* log guard leaves x, b and bnoise (the whole heap) as they were, and every
\* call of the five operations, in particular every call made after a failed
\* one on the instance the failure left behind, returns, raises and writes
\* what it does on a freshly constructed instance with the same b and
\* bnoise.
C14_FailedCallAbortsOnly ==
    [][(Ready /\ last'.op \in FiveOperations)
          => /\ last'.ret = OnFresh(last'.op, last'.out).ret
             /\ last'.exc = OnFresh(last'.op, last'.out).exc
             /\ heap' = OnFresh(last'.op, last'.out).heap
             /\ (last'.exc = "ValueError" => heap' = heap)]_vars

C14_Witness ==
    /\ AfterFailedValue
    /\ last.op = "convex_conjugate"
    /\ last.exc = "none"
    /\ \E i \in Idx : Gt0(OfNoise[i])

\* What the converter is to produce from the dataset the caller set as
\* input: white_level * exp(-d[i]) at every position.
Transmission == [i \in Idx |-> NScale(self.white_level, NExp(NNeg(xin[i])))]

\* C15: after set_input(d), get_output() or process() returns a new
\* container of d's shape whose every element is white_level * exp(-d[i]),
\* and d holds the values it held before.
C15_Allocating ==
    last.op \in {"get_output", "process"}
        => /\ last.ret = RetContainer(Transmission)
           /\ DOMAIN last.ret.val = DOMAIN xin
           /\ heap["x"] = xin
           /\ last.exc = "none"

C15_Witness ==
    /\ last.op = "get_output"
    /\ self.white_level = Q(10, 1)
    /\ Irrational(last.ret.val)
    /\ \E i \in Idx : Lt0(xin[i])
    /\ \E i \in Idx : Eq0(xin[i])

\* C16: after set_input(d) and r = get_output(), process(out=d) leaves d
\* with its shape and with contents equal to r, that is white_level *
\* exp(-d0[i]) for the contents d0 that d held before.
C16_InPlaceOnInput ==
    (last.op = "process_out" /\ last.out = "x")
        => /\ heap["x"] = last.ret.val
           /\ heap["x"] = Transmission
           /\ DOMAIN heap["x"] = DOMAIN xin
           /\ last.exc = "none"

C16_Witness ==
    /\ last.op = "process_out"
    /\ last.out = "x"
    /\ self.white_level = Q(10, 1)
    /\ Irrational(heap["x"])
    /\ \E i \in Idx : Gt0(xin[i])

\* C19: after set_input(d), process(out=o) with o a different buffer of
\* d's shape holding different values leaves o equal to what process()
\* returns for d, white_level * exp(-d[i]), and leaves d unchanged.
C19_InPlaceOnSeparate ==
    (last.op = "process_out" /\ last.out = "out" /\ xin # Full(NZero))
        => /\ heap["out"] = Transmission
           /\ heap["out"] = last.ret.val
           /\ heap["x"] = xin

\* C17: value of the origin revision returns +infinity and does not raise
\* whenever at least one element of x + bnoise is negative or zero.
C17_ValueOriginStrict ==
    (last.op = "value_origin" /\ \E i \in Idx : ~ Gt0(LogArg(i)))
        => last.exc = "none" /\ last.ret = RetScalar(PInf)

\* C18 as stated: convex_conjugate of the origin revision returns a scalar
\* and does not raise for every b >= 0, zeros included, and every x with
\* 1 - x > 0 everywhere.
C18_ConjugateNonNegativeData ==
    (/\ last.op = "convex_conjugate"
     /\ \A i \in Idx : ~ Lt0(OfB[i])
     /\ \A i \in Idx : Gt0(NSub(Int2N(1), xin[i])))
        => last.exc = "none" /\ last.ret.tag = "scalar"

\* C18 (amended): for every x with 1 - x > 0 everywhere, convex_conjugate
\* of the origin revision returns a finite scalar and does not raise when
\* every element of b is > 0; when b >= 0 has a zero element it raises
\* ValueError from the log guard and returns nothing.
C18_ConjugatePositiveData ==
    (/\ last.op = "convex_conjugate"
     /\ \A i \in Idx : ~ Lt0(OfB[i])
     /\ \A i \in Idx : Gt0(NSub(Int2N(1), xin[i])))
        => IF \A i \in Idx : Gt0(OfB[i])
           THEN /\ last.exc = "none"
                /\ last.ret.tag = "scalar"
                /\ IsFin(last.ret.val[1])
           ELSE last.exc = "ValueError" /\ last.ret = RetNone

C18_Witness ==
    /\ last.op = "convex_conjugate"
    /\ \A i \in Idx : Gt0(OfB[i])
    /\ \A i \in Idx : Gt0(NSub(Int2N(1), xin[i]))
    /\ \E i \in Idx : Lt0(xin[i])
    /\ \E i \in Idx : Gt0(OfNoise[i])
    /\ last.exc = "none"
    /\ last.ret.val[1].t # {}

\* C20: with the HEAD revision of proximal_conjugate, proximal(x, tau) +
\* tau * proximal_conjugate(x / tau, 1 / tau) equals x exactly, at every
\* element, for every x, tau > 0, b >= 0 and bnoise: the two square roots
\* cancel.
C20_MoreauHEAD ==
    last.op = "Moreau_HEAD" => last.ret.val = xin /\ last.exc = "none"

C20_Witness ==
    /\ last.op = "Moreau_HEAD"
    /\ Irrational(proximal(CallHeap, self, "x", tau).ret.val)
    /\ \E i \in Idx : Gt0(OfNoise[i])
    /\ \E i \in Idx : Lt0(xin[i])
    /\ tau # One

====
